---- MODULE Spec2Model ----
(***************************************************************************)
(* A model of the retrieval core of rag-system: the fixed-window chunker   *)
(* (src/lib/document-processors/chunker.ts), the semantic chunker          *)
(* (unnamed/part_003), the hybrid ranker (src/lib/db/vector-search.ts)     *)
(* and the reranker adapter (src/lib/ai/rerank.ts).                        *)
(*                                                                         *)
(* Each component is a state machine of its own (SpecChunk, SpecPages,     *)
(* SpecSemantic, SpecSearch, SpecRerank): one call is drawn in the initial *)
(* state and the actions are the steps of that call.  While one component  *)
(* runs, the variables of the others stay at their idle values.            *)
(* SpecEmbed takes the embedding loop of semanticChunk call by call, and   *)
(* SpecUpload runs the embedding job of an upload                          *)
(* (src/app/api/upload/route.ts) beside a search call.                     *)
(***************************************************************************)
EXTENDS Integers, Sequences, FiniteSets, TLC

VARIABLES
    \* chunkText (chunker.ts)
    text,          \* the input string, a sequence of characters
    chunkSize,     \* config.chunkSize
    chunkOverlap,  \* config.chunkOverlap
    startIndex,    \* the loop variable
    chunkIndex,    \* the ordinal of the next chunk
    chunks,        \* the chunks pushed so far
    cpc,           \* "idle" | "entry" | "loop" | "done"
    \* chunkTextWithPages (chunker.ts)
    pages,         \* the pages argument: the text of each page, in order
    page,          \* the number of pages whose chunkText call has started
    allChunks,     \* the chunks collected from the finished pages
    ppc,           \* "idle" | "loop" | "done"
    \* semanticChunk, hybridChunk (unnamed/part_003)
    sfn,           \* the function that was called
    sentences,     \* the sentences of the text: the length of each, in order
    pad,           \* the white space around the sentences, in characters
    config,        \* the resolved SemanticChunkConfig
    embeddings,    \* the embeddings received so far, one per sentence
    embedCalls,    \* the number of generateEmbedding calls made
    si,            \* the loop variable i of the grouping pass
    currentChunk,  \* the sentences of the chunk being built (their indexes)
    currentSize,   \* the sum of their lengths
    similarities,  \* the per-step similarities since the last emission
    semChunks,     \* the chunks pushed so far
    semChunkIndex, \* the ordinal of the next chunk
    semError,      \* "none" | "embedding" | "dimension": what was thrown
    inFlight,      \* the sentences whose generateEmbedding call is pending
    completed,     \* the calls of the batch that resolved, in that order
    answers,       \* every resolved call so far: its sentence, its vector
    mpc,           \* "idle" | "entry" | "semantic" | "embed" | "await" |
                   \* "group" | "fallback" | "done" | "failed"
    \* hybridSearch, hybridSearchInDocuments (vector-search.ts)
    db,              \* the "Chunk" table: chunk id -> row
    fn,              \* the function that runs
    queryText,       \* the query string, a sequence of characters
    limit,           \* the limit argument
    minSimilarity,   \* the minSimilarity argument
    documentIds,     \* the documentIds argument (a set; {} when there is none)
    semanticResults, \* the rows of the vector query
    ftsResults,      \* the rows of the keyword query
    rrfScores,       \* the Map reciprocalRankFusion returned, in insertion order
    lexicalQueries,  \* the number of keyword queries sent to the database
    searchError,     \* the query whose failure rejected the call, or "none"
    searchResult,    \* the list the call resolved to
    spc,             \* "idle" | "entry" | "lexical" | "done" | "failed"
    \* generateEmbeddingsForDocument (app/api/upload/route.ts)
    jobDocument,     \* the documentId argument, "none" when no job runs
    jobChunks,       \* the chunks findMany returned: their ids, in order
    jobIndex,        \* the number of chunks whose UPDATE has resolved
    jobpc,           \* "idle" | "find" | "embed" | "store" | "ready" | "failed"
    \* rerankChunks, rerankChunksCustom (rerank.ts)
    rfn,           \* the function that runs
    rchunks,       \* the chunks argument
    topN,          \* the topN argument
    apiKey,        \* whether process.env.COHERE_API_KEY is set
    rerankCalls,   \* the number of calls of cohereClient.rerank
    rerankResult,  \* the list the call resolved to
    rpc            \* "idle" | "entry" | "call" | "done"

chunkVars == <<text, chunkSize, chunkOverlap, startIndex, chunkIndex, chunks, cpc>>

searchVars == <<db, fn, queryText, limit, minSimilarity, documentIds, semanticResults,
                ftsResults, rrfScores, lexicalQueries, searchError, searchResult, spc,
                jobDocument, jobChunks, jobIndex, jobpc>>

jobVars == <<jobDocument, jobChunks, jobIndex, jobpc>>

rerankVars == <<rfn, rchunks, topN, apiKey, rerankCalls, rerankResult, rpc>>

pageVars == <<pages, page, allChunks, ppc>>

semanticVars == <<sfn, sentences, pad, config, embeddings, embedCalls, si, currentChunk,
                  currentSize, similarities, semChunks, semChunkIndex, semError, mpc,
                  inFlight, completed, answers>>

callVars == <<inFlight, completed, answers>>

vars == <<chunkVars, pageVars, semanticVars, searchVars, rerankVars>>

(***************************************************************************)
(* Bounds of the model.                                                    *)
(***************************************************************************)
MaxTextLen == 6
MaxChunkSize == 5
MaxChunkOverlap == 2
\* chunkText's loop is followed while startIndex >= -MaxBackward
MaxBackward == 2
MaxPages == 2
MaxPageLen == 2
MaxPageChunkSize == 2
MaxPageOverlap == 1
MaxSentences == 4
MaxPad == 1
MaxWindow == 2
\* hybridChunk tries semanticChunk on at most 100 sentences; the model keeps
\* the comparison and scales the number, so that a text beyond it fits
\* MaxSentences
HybridSentenceLimit == 3
\* semanticChunk embeds the sentences in batches of 20; the model keeps the
\* loop and scales the number, so that a text of two batches fits
\* MaxSentences
batchSize == 2
\* rows of the "Chunk" table
NumChunks == 2
MaxLimit == 2
\* rerankChunks: the input's length, topN, and the length of the service's list
MaxRerankInput == 3
MaxTopN == 2
MaxRerankResults == 2

Min(a, b) == IF a <= b THEN a ELSE b
Max(a, b) == IF a >= b THEN a ELSE b
SetMin(S) == CHOOSE x \in S : \A y \in S : x <= y
SetMax(S) == CHOOSE x \in S : \A y \in S : x >= y

(***************************************************************************)
(* Strings.  A string is a sequence of one-character strings; offsets are  *)
(* JavaScript's (0-based).                                                 *)
(***************************************************************************)
\* "." stands for every character that is not white space: it is ordinary
\* content, and followed by a space it is the sentence end ". "
Chars == {".", " ", "\n"}

\* sequences over S of length at most n
SeqsUpTo(S, n) == UNION {[1..k -> S] : k \in 0..n}

\* the characters String.prototype.trim removes (of Chars)
IsSpace(c) == c \in {" ", "\n"}

\* String.prototype.trim
Trim(s) ==
    LET keep == {i \in 1..Len(s) : ~IsSpace(s[i])}
    IN  IF keep = {} THEN <<>> ELSE SubSeq(s, SetMin(keep), SetMax(keep))

\* String.prototype.substring(a, b): both ends clamped to [0, length], and
\* swapped when a > b
Substring(s, a, b) ==
    LET ca == Max(0, Min(a, Len(s)))
        cb == Max(0, Min(b, Len(s)))
    IN  SubSeq(s, Min(ca, cb) + 1, Max(ca, cb))

\* String.prototype.lastIndexOf(sep) for a non-empty sep; -1 when absent
LastIndexOf(s, sep) ==
    LET occ == {i \in 0..(Len(s) - Len(sep)) : SubSeq(s, i + 1, i + Len(sep)) = sep}
    IN  IF occ = {} THEN -1 ELSE SetMax(occ)

(***************************************************************************)
(* chunkText                                                               *)
(***************************************************************************)
\* DEFAULT_CHUNK_CONFIG.separators
separators == << <<"\n", "\n">>, <<"\n">>, <<".", " ">>, <<" ">>, <<>> >>

\* the separator loop: the first separator, in order, whose last occurrence
\* in the window lies beyond chunkSize * SEPARATOR_MIN_POSITION_RATIO (0.5)
\* gives the split point; -1 when none does
RECURSIVE SplitFrom(_, _, _, _)
SplitFrom(i, substring, start, size) ==
    IF i > Len(separators) THEN -1
    ELSE IF separators[i] = <<>> THEN SplitFrom(i + 1, substring, start, size)
    ELSE LET lastIndex == LastIndexOf(substring, separators[i])
         IN  IF 2 * lastIndex > size
             THEN start + lastIndex + Len(separators[i])
             ELSE SplitFrom(i + 1, substring, start, size)

BestSplitPoint(substring, start, size) == SplitFrom(1, substring, start, size)

\* the window's end: start + chunkSize capped at the text's end, snapped to
\* the best split point when the window stops short of the end
EndIndex(t, start, size) ==
    LET endIndex == Min(start + size, Len(t))
    IN  IF endIndex < Len(t)
        THEN LET best == BestSplitPoint(Substring(t, start, endIndex), start, size)
             IN  IF best # -1 THEN best ELSE endIndex
        ELSE endIndex

\* the chunks after the window [start, endIndex) is handled: a window whose
\* trimmed content is empty pushes nothing
PushChunk(cs, t, start, endIndex, idx) ==
    LET content == Trim(Substring(t, start, endIndex))
    IN  IF Len(content) > 0
        THEN Append(cs, [content |-> content, chunkIndex |-> idx,
                         startChar |-> start, endChar |-> endIndex])
        ELSE cs

\* NextStart without its forward-progress guard (C3 rests on the guard)
NextStartNoGuard(cs, endIndex, overlap) == endIndex - overlap

\* NextStart with the overlap added instead of subtracted (C4 rests on the
\* next window starting no later than the last one ended)
NextStartAhead(cs, endIndex, overlap) == endIndex + overlap

\* the next startIndex: endIndex - chunkOverlap, forced to endIndex when
\* that does not pass the last chunk's start
NextStart(cs, endIndex, overlap) ==
    LET s == endIndex - overlap
    IN  IF Len(cs) > 0 /\ s <= cs[Len(cs)].startChar THEN endIndex ELSE s

ChunkInit ==
    /\ text \in SeqsUpTo(Chars, MaxTextLen)
    /\ chunkSize \in 1..MaxChunkSize
    /\ chunkOverlap \in 0..MaxChunkOverlap
    /\ startIndex = 0
    /\ chunkIndex = 0
    /\ chunks = <<>>
    /\ cpc = "entry"

\* if (!text || text.trim().length === 0) return [];
ChunkTextEmpty ==
    /\ UNCHANGED <<pageVars, semanticVars, searchVars, rerankVars>>
    /\ cpc = "entry"
    /\ Len(Trim(text)) = 0
    /\ cpc' = "done"
    /\ UNCHANGED <<text, chunkSize, chunkOverlap, startIndex, chunkIndex, chunks>>

ChunkTextEnter ==
    /\ UNCHANGED <<pageVars, semanticVars, searchVars, rerankVars>>
    /\ cpc = "entry"
    /\ Len(Trim(text)) # 0
    /\ cpc' = "loop"
    /\ UNCHANGED <<text, chunkSize, chunkOverlap, startIndex, chunkIndex, chunks>>

\* one iteration of while (startIndex < text.length)
ChunkTextIter ==
    /\ UNCHANGED <<pageVars, semanticVars, searchVars, rerankVars>>
    /\ cpc = "loop"
    /\ startIndex < Len(text)
    /\ startIndex >= -MaxBackward
    /\ LET endIndex == EndIndex(text, startIndex, chunkSize)
           pushed == PushChunk(chunks, text, startIndex, endIndex, chunkIndex)
       IN  /\ chunks' = pushed
           /\ chunkIndex' = IF Len(pushed) > Len(chunks) THEN chunkIndex + 1 ELSE chunkIndex
           /\ startIndex' = NextStart(pushed, endIndex, chunkOverlap)
    /\ UNCHANGED <<text, chunkSize, chunkOverlap, cpc>>

\* the loop's exit: return chunks
ChunkTextReturn ==
    /\ UNCHANGED <<pageVars, semanticVars, searchVars, rerankVars>>
    /\ cpc = "loop"
    /\ startIndex >= Len(text)
    /\ cpc' = "done"
    /\ UNCHANGED <<text, chunkSize, chunkOverlap, startIndex, chunkIndex, chunks>>

ChunkIdle ==
    /\ text = <<>>
    /\ chunkSize = 0
    /\ chunkOverlap = 0
    /\ startIndex = 0
    /\ chunkIndex = 0
    /\ chunks = <<>>
    /\ cpc = "idle"

ChunkNext == ChunkTextEmpty \/ ChunkTextEnter \/ ChunkTextIter \/ ChunkTextReturn

(***************************************************************************)
(* chunkTextWithPages                                                      *)
(*                                                                         *)
(* The loop over the pages calls chunkText once per page, so its steps are *)
(* the steps of chunkText and, between two of its calls, the step that     *)
(* collects the chunks of the page just done and starts the next page.     *)
(* Page p of the list carries pageNumber p.                                *)
(***************************************************************************)
PageChars == {".", " "}
PageTexts == SeqsUpTo(PageChars, MaxPageLen)

\* chunkText's additionalMetadata: { pageNumber: page.pageNumber }
WithPage(cs, n) ==
    [i \in 1..Len(cs) |->
        [content |-> cs[i].content, chunkIndex |-> cs[i].chunkIndex,
         startChar |-> cs[i].startChar, endChar |-> cs[i].endChar, pageNumber |-> n]]

PageInit ==
    /\ pages \in SeqsUpTo(PageTexts, MaxPages)
    /\ chunkSize \in 1..MaxPageChunkSize
    /\ chunkOverlap \in 0..MaxPageOverlap
    /\ page = 0
    /\ allChunks = <<>>
    /\ ppc = "loop"
    /\ text = <<>>
    /\ startIndex = 0
    /\ chunkIndex = 0
    /\ chunks = <<>>
    /\ cpc = "idle"

PageIdle ==
    /\ pages = <<>>
    /\ page = 0
    /\ allChunks = <<>>
    /\ ppc = "idle"

\* allChunks.push(...pageChunks) for the page just done, if there is one,
\* and the call chunkText(page.text, config, { pageNumber }) for the next
PageChunkText ==
    /\ UNCHANGED <<semanticVars, searchVars, rerankVars>>
    /\ ppc = "loop"
    /\ cpc \in {"idle", "done"}
    /\ page < Len(pages)
    /\ allChunks' = allChunks \o WithPage(chunks, page)
    /\ page' = page + 1
    /\ text' = pages[page + 1]
    /\ startIndex' = 0
    /\ chunkIndex' = 0
    /\ chunks' = <<>>
    /\ cpc' = "entry"
    /\ UNCHANGED <<pages, ppc, chunkSize, chunkOverlap>>

\* the push for the last page and return allChunks
PagesReturn ==
    /\ UNCHANGED <<semanticVars, searchVars, rerankVars>>
    /\ ppc = "loop"
    /\ cpc \in {"idle", "done"}
    /\ page = Len(pages)
    /\ allChunks' = allChunks \o WithPage(chunks, page)
    /\ ppc' = "done"
    /\ UNCHANGED <<pages, page, chunkVars>>

PageNext ==
    \/ PageChunkText
    \/ PagesReturn
    \/ ChunkTextEmpty
    \/ ChunkTextEnter
    \/ ChunkTextIter
    \/ ChunkTextReturn

(***************************************************************************)
(* hybridSearch and hybridSearchInDocuments                                *)
(*                                                                         *)
(* A row of "Chunk" holds whether its embedding is stored, its similarity  *)
(* to the query embedding (1 - cosine distance, in units of the model; 0   *)
(* where the embedding is NULL), its content and its document.  Chunk ids  *)
(* are opaque keys: chunk i belongs to "d1" when i is odd and to "d2" when *)
(* it is even.                                                             *)
(***************************************************************************)
RRF_K == 60

ChunkIds == 1..NumChunks
Similarities == {0, 1, 2}
MinSimilarities == {1}
Contents == {<<"z", "a", "b", "c">>, <<"x", "y", "z">>, <<"a", "b", "c", "x", "y", "z">>}
DocumentOf(id) == IF id % 2 = 1 THEN "d1" ELSE "d2"
Scopes == {{}, {"d1"}, {"d2"}, {"d1", "d2"}}

\* the query strings: "", "ab", "a-b-", "abc", "abc xy-z"
QueryTexts ==
    { <<>>,
      <<"a", "b">>,
      <<"a", "-", "b", "-">>,
      <<"a", "b", "c">>,
      <<"a", "b", "c", " ", "x", "y", "-", "z">> }

Rows ==
    {r \in [embedding : BOOLEAN, similarity : Similarities, content : Contents] :
        ~r.embedding => r.similarity = 0}

\* Array.prototype.slice(0, n) for n >= 0; LIMIT n of a query
Slice(seq, n) == SubSeq(seq, 1, Min(n, Len(seq)))

\* the row the queries SELECT for chunk id
Selected(id) ==
    [id |-> id, documentId |-> DocumentOf(id), content |-> db[id].content,
     similarity |-> db[id].similarity]

\* the orders a query may return the chunks of S in under ORDER BY
\* similarity DESC (the same order as ORDER BY distance ASC): rows of equal
\* similarity come in any order
Ordered(S) ==
    {o \in [1..Cardinality(S) -> S] :
        /\ \A i, j \in 1..Cardinality(S) : i # j => o[i] # o[j]
        /\ \A i, j \in 1..Cardinality(S) :
               i < j => db[o[i]].similarity >= db[o[j]].similarity}

SelectAll(o) == [i \in 1..Len(o) |-> Selected(o[i])]

\* WHERE embedding IS NOT NULL AND 1 - distance >= minSimilarity
\* [AND "documentId" IN (docIdList)]
VectorMatches(scope) ==
    {id \in ChunkIds :
        /\ db[id].embedding
        /\ db[id].similarity >= minSimilarity
        /\ (scope # {} => DocumentOf(id) \in scope)}

\* String.prototype.split(/\s+/): the pieces between the runs of white space
RECURSIVE SplitScan(_, _, _, _, _)
SplitScan(s, i, acc, cur, inSpace) ==
    IF i > Len(s) THEN Append(acc, cur)
    ELSE IF s[i] = " "
         THEN IF inSpace THEN SplitScan(s, i + 1, acc, cur, TRUE)
              ELSE SplitScan(s, i + 1, Append(acc, cur), <<>>, TRUE)
         ELSE SplitScan(s, i + 1, acc, Append(cur, s[i]), FALSE)

Split(s) == SplitScan(s, 1, <<>>, <<>>, FALSE)

\* word.replace(/[^\w]/g, ""): of the query characters only "-" is no word
\* character
StripNonWord(w) == SelectSeq(w, LAMBDA c : c # "-")

MapStrip(ws) == [i \in 1..Len(ws) |-> StripNonWord(ws[i])]

\* Keywords with both length tests off by one, >= 2 (C8 rests on the tests)
KeywordsFromTwo(q) ==
    SelectSeq(MapStrip(SelectSeq(Split(q), LAMBDA w : Len(w) >= 2)),
              LAMBDA w : Len(w) >= 2)

\* hybridSearch's keywords: split, keep the words longer than 2, strip, keep
\* the words still longer than 2
Keywords(q) ==
    SelectSeq(MapStrip(SelectSeq(Split(q), LAMBDA w : Len(w) > 2)),
              LAMBDA w : Len(w) > 2)

\* hybridSearchInDocuments' tsQuery terms (joined there by " & "): split,
\* keep the non-empty words, strip, keep the words still non-empty
TsQueryTerms(q) ==
    SelectSeq(MapStrip(SelectSeq(Split(q), LAMBDA w : Len(w) > 0)),
              LAMBDA w : Len(w) > 0)

\* content ILIKE '%keyword%'
ILike(content, keyword) ==
    \E i \in 0..(Len(content) - Len(keyword)) :
        SubSeq(content, i + 1, i + Len(keyword)) = keyword

\* a keyword query without AND embedding IS NOT NULL
KeywordMatchesAnyRow(keywords) ==
    {id \in ChunkIds : \E k \in 1..Len(keywords) : ILike(db[id].content, keywords[k])}

\* WHERE (content ILIKE '%k1%' OR ...) AND embedding IS NOT NULL
KeywordMatches(keywords) ==
    {id \in ChunkIds :
        /\ \E k \in 1..Len(keywords) : ILike(db[id].content, keywords[k])
        /\ db[id].embedding}

\* a score is the fraction num/den; the code's doubles order the sums of one
\* or two terms 1/(60 + rank) as the fractions do
ZeroScore == [num |-> 0, den |-> 1]
AddReciprocal(score, d) == [num |-> score.num * d + score.den, den |-> score.den * d]
ScoreGeq(a, b) == a.num * b.den >= b.num * a.den
ScoreEq(a, b) == a.num * b.den = b.num * a.den

\* rrfScores.get(id) || 0, on the Map as a sequence of entries
MapGet(m, id) ==
    IF \E e \in 1..Len(m) : m[e].id = id
    THEN m[CHOOSE e \in 1..Len(m) : m[e].id = id].score
    ELSE ZeroScore

\* set() that puts a new key first (C25 rests on the insertion order)
MapSetFront(m, id, score) ==
    IF \E e \in 1..Len(m) : m[e].id = id
    THEN [e \in 1..Len(m) |-> IF m[e].id = id THEN [id |-> id, score |-> score] ELSE m[e]]
    ELSE <<[id |-> id, score |-> score]>> \o m

\* rrfScores.set(id, score): an existing key keeps its place, a new one
\* goes last
MapSet(m, id, score) ==
    IF \E e \in 1..Len(m) : m[e].id = id
    THEN [e \in 1..Len(m) |-> IF m[e].id = id THEN [id |-> id, score |-> score] ELSE m[e]]
    ELSE Append(m, [id |-> id, score |-> score])

\* set() that forgets the score the key had (C5 rests on the sum)
RrfItemOverwrite(m, item, k) == MapSet(m, item.id, AddReciprocal(ZeroScore, k + item.rank))

\* set() that always adds an entry (C6 rests on one entry per id)
RrfItemAppend(m, item, k) ==
    Append(m, [id |-> item.id, score |-> AddReciprocal(MapGet(m, item.id), k + item.rank)])

\* the body of reciprocalRankFusion's inner loop
RrfItem(m, item, k) ==
    MapSet(m, item.id, AddReciprocal(MapGet(m, item.id), k + item.rank))

RECURSIVE RrfList(_, _, _, _)
RrfList(m, rankedList, i, k) ==
    IF i > Len(rankedList) THEN m
    ELSE RrfList(RrfItem(m, rankedList[i], k), rankedList, i + 1, k)

RECURSIVE RrfLists(_, _, _, _)
RrfLists(m, rankedLists, l, k) ==
    IF l > Len(rankedLists) THEN m
    ELSE RrfLists(RrfList(m, rankedLists[l], 1, k), rankedLists, l + 1, k)

reciprocalRankFusion(rankedLists, k) == RrfLists(<<>>, rankedLists, 1, k)

\* semanticRanked, ftsRanked: rank = index + 1
Ranked(rows) == [i \in 1..Len(rows) |-> [id |-> rows[i].id, rank |-> i]]

\* chunkMap.get(id): the vector query's row, else the keyword query's
ChunkMapGet(sem, fts, id) ==
    IF \E i \in 1..Len(sem) : sem[i].id = id
    THEN sem[CHOOSE i \in 1..Len(sem) : sem[i].id = id]
    ELSE fts[CHOOSE i \in 1..Len(fts) : fts[i].id = id]

\* Array.prototype.sort((a, b) => rrfB - rrfA): stable, by descending score
RECURSIVE SortDesc(_, _)
SortDesc(rows, scores) ==
    IF Len(rows) <= 1 THEN rows
    ELSE LET head == SortDesc(SubSeq(rows, 1, Len(rows) - 1), scores)
             x == rows[Len(rows)]
             before == {i \in 1..Len(head) :
                           ScoreGeq(MapGet(scores, head[i].id), MapGet(scores, x.id))}
             at == IF before = {} THEN 0
                   ELSE CHOOSE i \in 0..Len(head) :
                            /\ \A j \in 1..i : j \in before
                            /\ (i < Len(head) => (i + 1) \notin before)
         IN  SubSeq(head, 1, at) \o <<x>> \o SubSeq(head, at + 1, Len(head))

\* a merge that writes the place in the fused Map into the similarity
\* field (C21 rests on the field being the stage's)
MergedResultsPlaceAsSimilarity(sem, fts, scores, n) ==
    Slice(SortDesc([e \in 1..Len(scores) |->
                       [ChunkMapGet(sem, fts, scores[e].id) EXCEPT !.similarity = e]],
                   scores), n)

\* slice() that keeps the whole list (C7 rests on the truncation)
MergedResultsUncut(sem, fts, scores, n) ==
    SortDesc([e \in 1..Len(scores) |-> ChunkMapGet(sem, fts, scores[e].id)], scores)

\* mergedResults: the Map's entries, as rows, sorted, cut to limit
MergedResults(sem, fts, scores, n) ==
    Slice(SortDesc([e \in 1..Len(scores) |-> ChunkMapGet(sem, fts, scores[e].id)], scores), n)

\* no embedding job runs
JobIdle ==
    /\ jobDocument = "none"
    /\ jobChunks = <<>>
    /\ jobIndex = 0
    /\ jobpc = "idle"

SearchCall ==
    /\ db \in [ChunkIds -> Rows]
    /\ fn \in {"hybridSearch", "hybridSearchInDocuments"}
    /\ queryText \in QueryTexts
    /\ limit \in 0..MaxLimit
    /\ minSimilarity \in MinSimilarities
    /\ documentIds \in (IF fn = "hybridSearch" THEN {{}} ELSE Scopes)
    /\ semanticResults = <<>>
    /\ ftsResults = <<>>
    /\ rrfScores = <<>>
    /\ lexicalQueries = 0
    /\ searchError = "none"
    /\ searchResult = <<>>
    /\ spc = "entry"

SearchInit == SearchCall /\ JobIdle

SearchIdle ==
    /\ db = <<>>
    /\ fn = "none"
    /\ queryText = <<>>
    /\ limit = 0
    /\ minSimilarity = 0
    /\ documentIds = {}
    /\ semanticResults = <<>>
    /\ ftsResults = <<>>
    /\ rrfScores = <<>>
    /\ lexicalQueries = 0
    /\ searchError = "none"
    /\ searchResult = <<>>
    /\ spc = "idle"
    /\ JobIdle

\* hybridSearchInDocuments: if (documentIds.length === 0) return hybridSearch(...)
SearchDelegate ==
    /\ UNCHANGED <<chunkVars, pageVars, semanticVars, rerankVars, jobVars>>
    /\ spc = "entry"
    /\ fn = "hybridSearchInDocuments"
    /\ documentIds = {}
    /\ fn' = "hybridSearch"
    /\ UNCHANGED <<db, queryText, limit, minSimilarity, documentIds, semanticResults,
                   ftsResults, rrfScores, lexicalQueries, searchError, searchResult, spc>>

Running == fn = "hybridSearch" \/ documentIds # {}

\* the vector query resolves: ORDER BY distance LIMIT searchLimit
VectorQuery ==
    /\ UNCHANGED <<chunkVars, pageVars, semanticVars, rerankVars, jobVars>>
    /\ spc = "entry"
    /\ Running
    /\ \E o \in Ordered(VectorMatches(documentIds)) :
           semanticResults' = Slice(SelectAll(o), limit * 2)
    /\ spc' = "lexical"
    /\ UNCHANGED <<db, fn, queryText, limit, minSimilarity, documentIds, ftsResults,
                   rrfScores, lexicalQueries, searchError, searchResult>>

\* the vector query rejects: nothing catches it
VectorQueryFails ==
    /\ UNCHANGED <<chunkVars, pageVars, semanticVars, rerankVars, jobVars>>
    /\ spc = "entry"
    /\ Running
    /\ searchError' = "vector"
    /\ spc' = "failed"
    /\ UNCHANGED <<db, fn, queryText, limit, minSimilarity, documentIds, semanticResults,
                   ftsResults, rrfScores, lexicalQueries, searchResult>>

\* hybridSearch: if (keywords.length === 0) return semanticResults.slice(0, limit)
\* hybridSearchInDocuments: if (!tsQuery) return semanticResults.slice(0, limit)
NoKeywords ==
    /\ UNCHANGED <<chunkVars, pageVars, semanticVars, rerankVars, jobVars>>
    /\ spc = "lexical"
    /\ IF fn = "hybridSearch" THEN Keywords(queryText) = <<>>
                              ELSE TsQueryTerms(queryText) = <<>>
    /\ searchResult' = Slice(semanticResults, limit)
    /\ spc' = "done"
    /\ UNCHANGED <<db, fn, queryText, limit, minSimilarity, documentIds, semanticResults,
                   ftsResults, rrfScores, lexicalQueries, searchError>>

\* hybridSearch: the keyword query resolves, and the lists are fused
KeywordQuery ==
    /\ UNCHANGED <<chunkVars, pageVars, semanticVars, rerankVars, jobVars>>
    /\ spc = "lexical"
    /\ fn = "hybridSearch"
    /\ Keywords(queryText) # <<>>
    /\ \E o \in Ordered(KeywordMatches(Keywords(queryText))) :
           LET fts == Slice(SelectAll(o), limit * 2)
               scores == reciprocalRankFusion(<<Ranked(semanticResults), Ranked(fts)>>, RRF_K)
           IN  /\ ftsResults' = fts
               /\ rrfScores' = scores
               /\ searchResult' = MergedResults(semanticResults, fts, scores, limit)
    /\ lexicalQueries' = lexicalQueries + 1
    /\ spc' = "done"
    /\ UNCHANGED <<db, fn, queryText, limit, minSimilarity, documentIds, semanticResults,
                   searchError>>

\* the keyword query rejected, its failure swallowed (C9 rests on its
\* propagation)
KeywordQuerySwallowed ==
    /\ UNCHANGED <<chunkVars, pageVars, semanticVars, rerankVars, jobVars>>
    /\ spc = "lexical"
    /\ fn = "hybridSearch"
    /\ Keywords(queryText) # <<>>
    /\ lexicalQueries' = lexicalQueries + 1
    /\ searchError' = "lexical"
    /\ searchResult' = Slice(semanticResults, limit)
    /\ spc' = "done"
    /\ UNCHANGED <<db, fn, queryText, limit, minSimilarity, documentIds, semanticResults,
                   ftsResults, rrfScores>>

\* hybridSearch: the keyword query rejects: nothing catches it
KeywordQueryFails ==
    /\ UNCHANGED <<chunkVars, pageVars, semanticVars, rerankVars, jobVars>>
    /\ spc = "lexical"
    /\ fn = "hybridSearch"
    /\ Keywords(queryText) # <<>>
    /\ lexicalQueries' = lexicalQueries + 1
    /\ searchError' = "lexical"
    /\ spc' = "failed"
    /\ UNCHANGED <<db, fn, queryText, limit, minSimilarity, documentIds, semanticResults,
                   ftsResults, rrfScores, searchResult>>

\* hybridSearchInDocuments: the full-text query names the column content_fts,
\* which the migrations have dropped from "Chunk" (and line 123 says so): the
\* database rejects the query, and nothing catches it.  The fusion that
\* follows it in hybridSearchInDocuments (lines 272-317) is never reached.
FullTextQueryFails ==
    /\ UNCHANGED <<chunkVars, pageVars, semanticVars, rerankVars, jobVars>>
    /\ spc = "lexical"
    /\ fn = "hybridSearchInDocuments"
    /\ TsQueryTerms(queryText) # <<>>
    /\ lexicalQueries' = lexicalQueries + 1
    /\ searchError' = "lexical"
    /\ spc' = "failed"
    /\ UNCHANGED <<db, fn, queryText, limit, minSimilarity, documentIds, semanticResults,
                   ftsResults, rrfScores, searchResult>>

SearchNext ==
    \/ SearchDelegate
    \/ VectorQuery
    \/ VectorQueryFails
    \/ NoKeywords
    \/ KeywordQuery
    \/ KeywordQueryFails
    \/ FullTextQueryFails

(***************************************************************************)
(* generateEmbeddingsForDocument beside a search (SpecUpload).             *)
(*                                                                         *)
(* The upload handlers insert the chunks of the new document without an    *)
(* embedding and start the job without awaiting it.  The job and a search  *)
(* call share the "Chunk" table; each await of the job is a step, taken    *)
(* at any point of the search.                                             *)
(***************************************************************************)
\* the documents an upload creates: "d3" is a document with no chunk
JobDocuments == {"d1", "d2", "d3"}

ChunksOf(d) == {id \in ChunkIds : DocumentOf(id) = d}

\* the orders findMany may return the chunks of S in: it has no orderBy
Found(S) ==
    {o \in [1..Cardinality(S) -> S] : \A i, j \in 1..Cardinality(S) : i # j => o[i] # o[j]}

\* the job rejected inside its try: the catch sets the status to failed
JobFailed ==
    /\ jobpc' = "failed"
    /\ UNCHANGED <<db, jobDocument, jobChunks, jobIndex>>

\* UPDATE "Chunk" SET embedding = ... WHERE id = ...: the row has an
\* embedding from now on, and with it a similarity to the query
Stored(table, id, s) == [table EXCEPT ![id] = [@ EXCEPT !.embedding = TRUE, !.similarity = s]]

\* handlePDFUpload, handleLinkSubmission: createMany has inserted the chunks
\* of the document, and the job is started
JobLaunched ==
    /\ jobDocument \in JobDocuments
    /\ \A id \in ChunksOf(jobDocument) : ~db[id].embedding
    /\ jobChunks = <<>>
    /\ jobIndex = 0
    /\ jobpc = "find"

\* prisma.chunk.findMany({ where: { documentId } }) resolves
JobFind ==
    /\ UNCHANGED <<chunkVars, pageVars, semanticVars, rerankVars>>
    /\ jobpc = "find"
    /\ ChunksOf(jobDocument) # {}
    /\ jobChunks' \in Found(ChunksOf(jobDocument))
    /\ jobpc' = "embed"
    /\ UNCHANGED <<db, fn, queryText, limit, minSimilarity, documentIds, semanticResults,
                   ftsResults, rrfScores, lexicalQueries, searchError, searchResult, spc,
                   jobDocument, jobIndex>>

\* if (chunks.length === 0) throw new Error("No chunks found for document")
JobNoChunks ==
    /\ UNCHANGED <<chunkVars, pageVars, semanticVars, rerankVars>>
    /\ jobpc = "find"
    /\ ChunksOf(jobDocument) = {}
    /\ JobFailed
    /\ UNCHANGED <<fn, queryText, limit, minSimilarity, documentIds, semanticResults,
                   ftsResults, rrfScores, lexicalQueries, searchError, searchResult, spc>>

\* generateEmbeddingsInBatches resolves
JobEmbed ==
    /\ UNCHANGED <<chunkVars, pageVars, semanticVars, rerankVars>>
    /\ jobpc = "embed"
    /\ jobpc' = "store"
    /\ UNCHANGED <<db, fn, queryText, limit, minSimilarity, documentIds, semanticResults,
                   ftsResults, rrfScores, lexicalQueries, searchError, searchResult, spc,
                   jobDocument, jobChunks, jobIndex>>

\* generateEmbeddingsInBatches rejects
JobEmbedFails ==
    /\ UNCHANGED <<chunkVars, pageVars, semanticVars, rerankVars>>
    /\ jobpc = "embed"
    /\ JobFailed
    /\ UNCHANGED <<fn, queryText, limit, minSimilarity, documentIds, semanticResults,
                   ftsResults, rrfScores, lexicalQueries, searchError, searchResult, spc>>

\* the UPDATE of chunks[i] resolves; i++
JobStore ==
    /\ UNCHANGED <<chunkVars, pageVars, semanticVars, rerankVars>>
    /\ jobpc = "store"
    /\ jobIndex < Len(jobChunks)
    /\ \E s \in Similarities : db' = Stored(db, jobChunks[jobIndex + 1], s)
    /\ jobIndex' = jobIndex + 1
    /\ UNCHANGED <<fn, queryText, limit, minSimilarity, documentIds, semanticResults,
                   ftsResults, rrfScores, lexicalQueries, searchError, searchResult, spc,
                   jobDocument, jobChunks, jobpc>>

\* the UPDATE of chunks[i] rejects
JobStoreFails ==
    /\ UNCHANGED <<chunkVars, pageVars, semanticVars, rerankVars>>
    /\ jobpc = "store"
    /\ jobIndex < Len(jobChunks)
    /\ JobFailed
    /\ UNCHANGED <<fn, queryText, limit, minSimilarity, documentIds, semanticResults,
                   ftsResults, rrfScores, lexicalQueries, searchError, searchResult, spc>>

\* the loop is over: the status of the document becomes ready
JobReady ==
    /\ UNCHANGED <<chunkVars, pageVars, semanticVars, rerankVars>>
    /\ jobpc = "store"
    /\ jobIndex = Len(jobChunks)
    /\ jobpc' = "ready"
    /\ UNCHANGED <<db, fn, queryText, limit, minSimilarity, documentIds, semanticResults,
                   ftsResults, rrfScores, lexicalQueries, searchError, searchResult, spc,
                   jobDocument, jobChunks, jobIndex>>

JobNext ==
    \/ JobFind
    \/ JobNoChunks
    \/ JobEmbed
    \/ JobEmbedFails
    \/ JobStore
    \/ JobStoreFails
    \/ JobReady

\* a search call made while the job of an upload runs: a query without a
\* keyword or the query "abc", and the largest limit
UploadInit ==
    /\ SearchCall
    /\ queryText \in {<<>>, <<"a", "b", "c">>}
    /\ limit = MaxLimit
    /\ JobLaunched

UploadNext == SearchNext \/ JobNext

(***************************************************************************)
(* rerankChunks and rerankChunksCustom                                     *)
(*                                                                         *)
(* The two functions differ in the model name they send and in one         *)
(* console.warn; their steps are the same.  A chunk is its id, its content *)
(* and its similarity; the service answers with a list of results, each an *)
(* index into the documents sent and a relevance score.                    *)
(***************************************************************************)
RerankSimilarities == {1, 2}
Relevances == {3, 4}

RerankInputs ==
    UNION {{c \in [1..n -> [id : 1..n, content : {"text"}, similarity : RerankSimilarities]] :
               \A i \in 1..n : c[i].id = i} : n \in 0..MaxRerankInput}

\* the lists the service may answer a call about n documents with: an index
\* of n is past the end of the documents
ServiceResults(n) == SeqsUpTo([index : 0..n, relevanceScore : Relevances], MaxRerankResults)

\* { ...chunk, rerankScore: chunk.similarity, originalSimilarity: chunk.similarity }
Unranked(chunk) ==
    [id |-> chunk.id, content |-> chunk.content, similarity |-> chunk.similarity,
     rerankScore |-> chunk.similarity, originalSimilarity |-> chunk.similarity]

\* chunks.map(...) of the branch chunks.length <= topN
ReturnAll(cs) == [i \in 1..Len(cs) |-> Unranked(cs[i])]

\* a fallback that forgets slice(0, topN)
FallbackAll(cs, n) == ReturnAll(cs)

\* chunks.slice(0, topN).map(...) of the missing key and of the catch block
Fallback(cs, n) == ReturnAll(Slice(cs, n))

\* reranked.results.map(...): chunks[result.index] with the service's score
Reranked(cs, results) ==
    [r \in 1..Len(results) |->
        LET originalChunk == cs[results[r].index + 1]
        IN  [id |-> originalChunk.id, content |-> originalChunk.content,
             similarity |-> results[r].relevanceScore,
             rerankScore |-> results[r].relevanceScore,
             originalSimilarity |-> originalChunk.similarity]]

RerankInit ==
    /\ rfn \in {"rerankChunks", "rerankChunksCustom"}
    /\ rchunks \in RerankInputs
    /\ topN \in 0..MaxTopN
    /\ apiKey \in BOOLEAN
    /\ rerankCalls = 0
    /\ rerankResult = <<>>
    /\ rpc = "entry"

RerankIdle ==
    /\ rfn = "none"
    /\ rchunks = <<>>
    /\ topN = 0
    /\ apiKey = FALSE
    /\ rerankCalls = 0
    /\ rerankResult = <<>>
    /\ rpc = "idle"

\* if (chunks.length === 0) return [];
RerankEmpty ==
    /\ UNCHANGED <<chunkVars, pageVars, semanticVars, searchVars>>
    /\ rpc = "entry"
    /\ Len(rchunks) = 0
    /\ rerankResult' = <<>>
    /\ rpc' = "done"
    /\ UNCHANGED <<rfn, rchunks, topN, apiKey, rerankCalls>>

\* the branch chunks.length <= topN with one call of the service added (C10
\* rests on the branch returning before the service is reached)
RerankAllAfterCall ==
    /\ UNCHANGED <<chunkVars, pageVars, semanticVars, searchVars>>
    /\ rpc = "entry"
    /\ Len(rchunks) # 0
    /\ Len(rchunks) <= topN
    /\ rerankResult' = ReturnAll(rchunks)
    /\ rerankCalls' = rerankCalls + 1
    /\ rpc' = "done"
    /\ UNCHANGED <<rfn, rchunks, topN, apiKey>>

\* if (chunks.length <= topN) return chunks.map(...)
RerankAll ==
    /\ UNCHANGED <<chunkVars, pageVars, semanticVars, searchVars>>
    /\ rpc = "entry"
    /\ Len(rchunks) # 0
    /\ Len(rchunks) <= topN
    /\ rerankResult' = ReturnAll(rchunks)
    /\ rpc' = "done"
    /\ UNCHANGED <<rfn, rchunks, topN, apiKey, rerankCalls>>

\* await import("cohere-ai") rejects, or new CohereClient throws: the catch
\* block returns the fallback
RerankImportFails ==
    /\ UNCHANGED <<chunkVars, pageVars, semanticVars, searchVars>>
    /\ rpc = "entry"
    /\ Len(rchunks) > topN
    /\ rerankResult' = Fallback(rchunks, topN)
    /\ rpc' = "done"
    /\ UNCHANGED <<rfn, rchunks, topN, apiKey, rerankCalls>>

\* if (!cohereApiKey) return chunks.slice(0, topN).map(...)
RerankNoKey ==
    /\ UNCHANGED <<chunkVars, pageVars, semanticVars, searchVars>>
    /\ rpc = "entry"
    /\ Len(rchunks) > topN
    /\ ~apiKey
    /\ rerankResult' = Fallback(rchunks, topN)
    /\ rpc' = "done"
    /\ UNCHANGED <<rfn, rchunks, topN, apiKey, rerankCalls>>

\* await cohereClient.rerank({...}) is sent
RerankCall ==
    /\ UNCHANGED <<chunkVars, pageVars, semanticVars, searchVars>>
    /\ rpc = "entry"
    /\ Len(rchunks) > topN
    /\ apiKey
    /\ rerankCalls' = rerankCalls + 1
    /\ rpc' = "call"
    /\ UNCHANGED <<rfn, rchunks, topN, apiKey, rerankResult>>

\* the service call rejects: the catch block returns the fallback
RerankRejects ==
    /\ UNCHANGED <<chunkVars, pageVars, semanticVars, searchVars>>
    /\ rpc = "call"
    /\ rerankResult' = Fallback(rchunks, topN)
    /\ rpc' = "done"
    /\ UNCHANGED <<rfn, rchunks, topN, apiKey, rerankCalls>>

\* the service call resolves with indexes inside the input: its list is
\* mapped back to the chunks
RerankResolves ==
    /\ UNCHANGED <<chunkVars, pageVars, semanticVars, searchVars>>
    /\ rpc = "call"
    /\ \E results \in ServiceResults(Len(rchunks)) :
           /\ \A r \in 1..Len(results) : results[r].index < Len(rchunks)
           /\ rerankResult' = Reranked(rchunks, results)
    /\ rpc' = "done"
    /\ UNCHANGED <<rfn, rchunks, topN, apiKey, rerankCalls>>

\* the service call resolves with an index outside the input: chunks[index]
\* is undefined, originalChunk.similarity throws a TypeError inside the try
\* block, and the catch block returns the fallback
RerankBadIndex ==
    /\ UNCHANGED <<chunkVars, pageVars, semanticVars, searchVars>>
    /\ rpc = "call"
    /\ \E results \in ServiceResults(Len(rchunks)) :
           \E r \in 1..Len(results) : results[r].index >= Len(rchunks)
    /\ rerankResult' = Fallback(rchunks, topN)
    /\ rpc' = "done"
    /\ UNCHANGED <<rfn, rchunks, topN, apiKey, rerankCalls>>

RerankNext ==
    \/ RerankEmpty
    \/ RerankAll
    \/ RerankImportFails
    \/ RerankNoKey
    \/ RerankCall
    \/ RerankRejects
    \/ RerankResolves
    \/ RerankBadIndex

(***************************************************************************)
(* semanticChunk and hybridChunk                                           *)
(*                                                                         *)
(* A text is the list of its sentences, as splitIntoSentences returns      *)
(* them, and the white space around them: a sentence is its length, two    *)
(* sentences of the text are one space apart, and pad counts the white     *)
(* space before the first and after the last.  A text without sentences is *)
(* empty or white space only.  The content of a chunk is the list of the   *)
(* indexes (0-based) of the sentences joined in it.                        *)
(*                                                                         *)
(* Numbers that are not integers (similarities, the threshold) are exact   *)
(* fractions in lowest terms.  An embedding is a vector of integers whose  *)
(* norm is an integer.                                                     *)
(***************************************************************************)
RECURSIVE Gcd(_, _)
Gcd(a, b) == IF b = 0 THEN a ELSE Gcd(b, a % b)

\* n / d for n >= 0 and d > 0
Frac(n, d) == LET g == Gcd(n, d) IN [num |-> n \div g, den |-> d \div g]

FracAdd(a, b) == Frac(a.num * b.den + b.num * a.den, a.den * b.den)

FracDiv(a, k) == Frac(a.num, a.den * k)

FracGeq(a, b) == a.num * b.den >= b.num * a.den

\* fs.reduce((a, b) => a + b, 0)
RECURSIVE FracSum(_)
FracSum(fs) == IF fs = <<>> THEN Frac(0, 1) ELSE FracAdd(Head(fs), FracSum(Tail(fs)))

\* fs.reduce((a, b) => a + b, 0) / fs.length
Mean(fs) == FracDiv(FracSum(fs), Len(fs))

SentenceLengths == {100, 1400}

\* the vectors the embedding provider may answer with: two of dimension 2
\* and one of dimension 1
Vectors == {<<1, 0>>, <<3, 4>>, <<1>>}

DEFAULT_SEMANTIC_CONFIG ==
    [maxChunkSize |-> 1500, minChunkSize |-> 200,
     similarityThreshold |-> Frac(3, 4), sentenceWindow |-> 3]

\* the values of minChunkSize a caller passes: the default and one above
\* maxChunkSize
MinChunkSizes == {200, 1600}

\* { ...DEFAULT_SEMANTIC_CONFIG, ...config } of the calls of the model
SemanticConfigs ==
    {[DEFAULT_SEMANTIC_CONFIG EXCEPT !.minChunkSize = m, !.sentenceWindow = w] :
        m \in MinChunkSizes, w \in 1..MaxWindow}

maxSize == 1500

RECURSIVE SumSeq(_)
SumSeq(ns) == IF ns = <<>> THEN 0 ELSE Head(ns) + SumSeq(Tail(ns))

\* text.length
TextLength(ss, p) == SumSeq(ss) + Max(0, Len(ss) - 1) + p

\* the sum of a[k] * b[k] over the indexes of a
Dot(a, b) == SumSeq([k \in 1..Len(a) |-> a[k] * b[k]])

\* Math.sqrt, on the squares
Sqrt(n) == CHOOSE r \in 0..n : r * r = n

\* cosineSimilarity(a, b) for vectors of one length; it throws for others
cosineSimilarity(a, b) == Frac(Dot(a, b), Sqrt(Dot(a, a)) * Sqrt(Dot(b, b)))

\* recentIndices counted from the start of the document instead of from
\* the start of the current chunk
RecentIndicesFromStart(i, chunkLen, window) ==
    LET lookbackStart == Max(0, chunkLen - window)
    IN  [idx \in 1..(chunkLen - lookbackStart) |-> lookbackStart + (idx - 1)]

\* recentIndices: the indexes of the sentences that sentence i is compared
\* with, when the current chunk holds chunkLen sentences
RecentIndices(i, chunkLen, window) ==
    LET lookbackStart == Max(0, chunkLen - window)
    IN  [idx \in 1..(chunkLen - lookbackStart) |->
            i - chunkLen + lookbackStart + (idx - 1)]

\* cosineSimilarity throws "Vectors must have the same length" in step i
DimensionMismatch(i) ==
    LET recent == RecentIndices(i, Len(currentChunk), config.sentenceWindow)
    IN  \E k \in 1..Len(recent) : Len(embeddings[i + 1]) # Len(embeddings[recent[k] + 1])

\* avgSimilarity of step i
StepSimilarity(i) ==
    LET recent == RecentIndices(i, Len(currentChunk), config.sentenceWindow)
    IN  Mean([k \in 1..Len(recent) |->
                 cosineSimilarity(embeddings[i + 1], embeddings[recent[k] + 1])])

\* wouldExceedMax || (!isSimilar && meetsMinSize) in step i
Boundary(i) ==
    LET wouldExceedMax == currentSize + sentences[i + 1] > config.maxChunkSize
        isSimilar == FracGeq(StepSimilarity(i), config.similarityThreshold)
        meetsMinSize == currentSize >= config.minChunkSize
    IN  wouldExceedMax \/ (~isSimilar /\ meetsMinSize)

\* the chunk pushed for the current chunk
SemanticChunkOf(cur, idx, sims) ==
    [content |-> cur, chunkIndex |-> idx, sentenceCount |-> Len(cur),
     avgSimilarity |-> IF Len(sims) > 0 THEN Mean(sims) ELSE Frac(1, 1)]

\* the chunk the fallback of hybridChunk pushes
FallbackChunkOf(cur, idx) ==
    [content |-> cur, chunkIndex |-> idx, sentenceCount |-> Len(cur),
     avgSimilarity |-> Frac(0, 1)]

\* the fallback loop of hybridChunk from sentence k on, and its last push
RECURSIVE Accumulate(_, _, _, _, _, _)
Accumulate(ss, k, cur, size, idx, cs) ==
    IF k = Len(ss)
    THEN IF Len(cur) > 0 THEN Append(cs, FallbackChunkOf(cur, idx)) ELSE cs
    ELSE IF size + ss[k + 1] > maxSize /\ Len(cur) > 0
         THEN Accumulate(ss, k + 1, <<k>>, ss[k + 1], idx + 1,
                         Append(cs, FallbackChunkOf(cur, idx)))
         ELSE Accumulate(ss, k + 1, Append(cur, k), size + ss[k + 1], idx, cs)

\* a catch that rethrows
CaughtNever(f) == "failed"

\* where an exception thrown inside semanticChunk leads: hybridChunk
\* catches it and goes on to its fallback, a direct call rejects
Caught(f) == IF f = "hybridChunk" THEN "fallback" ELSE "failed"

SemanticInit ==
    /\ sfn \in {"semanticChunk", "hybridChunk"}
    /\ sentences \in SeqsUpTo(SentenceLengths, MaxSentences)
    /\ pad \in 0..MaxPad
    /\ config \in IF sfn = "hybridChunk" THEN {DEFAULT_SEMANTIC_CONFIG} ELSE SemanticConfigs
    /\ mpc = IF sfn = "hybridChunk" THEN "entry" ELSE "semantic"
    /\ embeddings = <<>>
    /\ embedCalls = 0
    /\ si = 0
    /\ currentChunk = <<>>
    /\ currentSize = 0
    /\ similarities = <<>>
    /\ semChunks = <<>>
    /\ semChunkIndex = 0
    /\ semError = "none"
    /\ inFlight = {}
    /\ completed = <<>>
    /\ answers = {}

SemanticIdle ==
    /\ sfn = "none"
    /\ sentences = <<>>
    /\ pad = 0
    /\ config = DEFAULT_SEMANTIC_CONFIG
    /\ embeddings = <<>>
    /\ embedCalls = 0
    /\ si = 0
    /\ currentChunk = <<>>
    /\ currentSize = 0
    /\ similarities = <<>>
    /\ semChunks = <<>>
    /\ semChunkIndex = 0
    /\ semError = "none"
    /\ inFlight = {}
    /\ completed = <<>>
    /\ answers = {}
    /\ mpc = "idle"

\* hybridChunk: sentences.length > 0 && sentences.length <= 100, so
\* semanticChunk(text, {}, additionalMetadata) is called
HybridTry ==
    /\ UNCHANGED <<chunkVars, pageVars, searchVars, rerankVars, callVars>>
    /\ mpc = "entry"
    /\ Len(sentences) > 0
    /\ Len(sentences) <= HybridSentenceLimit
    /\ mpc' = "semantic"
    /\ UNCHANGED <<sfn, sentences, pad, config, embeddings, embedCalls, si, currentChunk,
                   currentSize, similarities, semChunks, semChunkIndex, semError>>

\* hybridChunk: no sentence, or more than 100
HybridSkip ==
    /\ UNCHANGED <<chunkVars, pageVars, searchVars, rerankVars, callVars>>
    /\ mpc = "entry"
    /\ ~(Len(sentences) > 0 /\ Len(sentences) <= HybridSentenceLimit)
    /\ mpc' = "fallback"
    /\ UNCHANGED <<sfn, sentences, pad, config, embeddings, embedCalls, si, currentChunk,
                   currentSize, similarities, semChunks, semChunkIndex, semError>>

\* hybridChunk's fallback: the loop over the sentences and return chunks
HybridFallback ==
    /\ UNCHANGED <<chunkVars, pageVars, searchVars, rerankVars, callVars>>
    /\ mpc = "fallback"
    /\ semChunks' = Accumulate(sentences, 0, <<>>, 0, 0, <<>>)
    /\ semChunkIndex' = Max(0, Len(semChunks') - 1)
    /\ mpc' = "done"
    /\ UNCHANGED <<sfn, sentences, pad, config, embeddings, embedCalls, si, currentChunk,
                   currentSize, similarities, semError>>

\* semanticChunk without its empty returns: the single chunk of a short
\* text is built for a text without sentences too
SemanticBlankOneChunk ==
    /\ UNCHANGED <<chunkVars, pageVars, searchVars, rerankVars, callVars>>
    /\ mpc = "semantic"
    /\ Len(sentences) = 0
    /\ semChunks' = <<[content |-> <<>>, chunkIndex |-> 0, sentenceCount |-> 0,
                       avgSimilarity |-> Frac(1, 1)]>>
    /\ mpc' = "done"
    /\ UNCHANGED <<sfn, sentences, pad, config, embeddings, embedCalls, si, currentChunk,
                   currentSize, similarities, semChunkIndex, semError>>

\* semanticChunk: if (!text || text.trim().length === 0) return [], and
\* if (sentences.length === 0) return []
SemanticBlank ==
    /\ UNCHANGED <<chunkVars, pageVars, searchVars, rerankVars, callVars>>
    /\ mpc = "semantic"
    /\ Len(sentences) = 0
    /\ mpc' = "done"
    /\ UNCHANGED <<sfn, sentences, pad, config, embeddings, embedCalls, si, currentChunk,
                   currentSize, similarities, semChunks, semChunkIndex, semError>>

\* semanticChunk without its short-circuit: a short text is embedded too
SemanticShortEmbedded ==
    /\ UNCHANGED <<chunkVars, pageVars, searchVars, rerankVars, callVars>>
    /\ mpc = "semantic"
    /\ Len(sentences) # 0
    /\ TextLength(sentences, pad) <= config.maxChunkSize
    /\ mpc' = "embed"
    /\ UNCHANGED <<sfn, sentences, pad, config, embeddings, embedCalls, si, currentChunk,
                   currentSize, similarities, semChunks, semChunkIndex, semError>>

\* semanticChunk: if (text.length <= maxChunkSize) return [the trimmed text]
SemanticShort ==
    /\ UNCHANGED <<chunkVars, pageVars, searchVars, rerankVars, callVars>>
    /\ mpc = "semantic"
    /\ Len(sentences) # 0
    /\ TextLength(sentences, pad) <= config.maxChunkSize
    /\ semChunks' = <<[content |-> [k \in 1..Len(sentences) |-> k - 1], chunkIndex |-> 0,
                       sentenceCount |-> Len(sentences), avgSimilarity |-> Frac(1, 1)]>>
    /\ mpc' = "done"
    /\ UNCHANGED <<sfn, sentences, pad, config, embeddings, embedCalls, si, currentChunk,
                   currentSize, similarities, semChunkIndex, semError>>

\* semanticChunk: the text is longer than maxChunkSize
SemanticLong ==
    /\ UNCHANGED <<chunkVars, pageVars, searchVars, rerankVars, callVars>>
    /\ mpc = "semantic"
    /\ Len(sentences) # 0
    /\ TextLength(sentences, pad) > config.maxChunkSize
    /\ mpc' = "embed"
    /\ UNCHANGED <<sfn, sentences, pad, config, embeddings, embedCalls, si, currentChunk,
                   currentSize, similarities, semChunks, semChunkIndex, semError>>

\* one batch of the embedding loop: a generateEmbedding call for each of
\* the next batchSize sentences, all of which resolve
EmbedBatch ==
    /\ UNCHANGED <<chunkVars, pageVars, searchVars, rerankVars, callVars>>
    /\ mpc = "embed"
    /\ Len(embeddings) < Len(sentences)
    /\ LET batch == Min(batchSize, Len(sentences) - Len(embeddings))
       IN  /\ \E batchEmbeddings \in [1..batch -> Vectors] :
                  embeddings' = embeddings \o batchEmbeddings
           /\ embedCalls' = embedCalls + batch
    /\ UNCHANGED <<sfn, sentences, pad, config, si, currentChunk, currentSize,
                   similarities, semChunks, semChunkIndex, semError, mpc>>

\* a batch whose rejection is swallowed: zero-like vectors stand in
EmbedBatchRejectsSwallowed ==
    /\ UNCHANGED <<chunkVars, pageVars, searchVars, rerankVars, callVars>>
    /\ mpc = "embed"
    /\ Len(embeddings) < Len(sentences)
    /\ LET batch == Min(batchSize, Len(sentences) - Len(embeddings))
       IN  /\ embeddings' = embeddings \o [k \in 1..batch |-> <<1, 0>>]
           /\ embedCalls' = embedCalls + batch
    /\ semError' = "embedding"
    /\ UNCHANGED <<sfn, sentences, pad, config, si, currentChunk, currentSize,
                   similarities, semChunks, semChunkIndex, mpc>>

\* one batch of which a call rejects: Promise.all rejects
EmbedBatchRejects ==
    /\ UNCHANGED <<chunkVars, pageVars, searchVars, rerankVars, callVars>>
    /\ mpc = "embed"
    /\ Len(embeddings) < Len(sentences)
    /\ embedCalls' = embedCalls + Min(batchSize, Len(sentences) - Len(embeddings))
    /\ semError' = "embedding"
    /\ mpc' = Caught(sfn)
    /\ UNCHANGED <<sfn, sentences, pad, config, embeddings, si, currentChunk, currentSize,
                   similarities, semChunks, semChunkIndex>>

\* the embedding loop is over: currentChunk = [sentences[0]]
GroupStart ==
    /\ UNCHANGED <<chunkVars, pageVars, searchVars, rerankVars, callVars>>
    /\ mpc = "embed"
    /\ Len(embeddings) >= Len(sentences)
    /\ currentChunk' = <<0>>
    /\ currentSize' = sentences[1]
    /\ semChunkIndex' = 0
    /\ similarities' = <<>>
    /\ si' = 1
    /\ mpc' = "group"
    /\ UNCHANGED <<sfn, sentences, pad, config, embeddings, embedCalls, semChunks, semError>>

\* an iteration of the grouping loop in which cosineSimilarity throws
GroupThrows ==
    /\ UNCHANGED <<chunkVars, pageVars, searchVars, rerankVars, callVars>>
    /\ mpc = "group"
    /\ si < Len(sentences)
    /\ DimensionMismatch(si)
    /\ semError' = "dimension"
    /\ semChunks' = <<>>
    /\ mpc' = Caught(sfn)
    /\ UNCHANGED <<sfn, sentences, pad, config, embeddings, embedCalls, si, currentChunk,
                   currentSize, similarities, semChunkIndex>>

\* an iteration of the grouping loop that starts a new chunk with sentence i
GroupEmit ==
    /\ UNCHANGED <<chunkVars, pageVars, searchVars, rerankVars, callVars>>
    /\ mpc = "group"
    /\ si < Len(sentences)
    /\ ~DimensionMismatch(si)
    /\ Boundary(si)
    /\ semChunks' = Append(semChunks,
                           SemanticChunkOf(currentChunk, semChunkIndex,
                                           Append(similarities, StepSimilarity(si))))
    /\ currentChunk' = <<si>>
    /\ currentSize' = sentences[si + 1]
    /\ similarities' = <<>>
    /\ semChunkIndex' = semChunkIndex + 1
    /\ si' = si + 1
    /\ UNCHANGED <<sfn, sentences, pad, config, embeddings, embedCalls, semError, mpc>>

\* an iteration of the grouping loop that adds sentence i to the chunk
GroupAppend ==
    /\ UNCHANGED <<chunkVars, pageVars, searchVars, rerankVars, callVars>>
    /\ mpc = "group"
    /\ si < Len(sentences)
    /\ ~DimensionMismatch(si)
    /\ ~Boundary(si)
    /\ similarities' = Append(similarities, StepSimilarity(si))
    /\ currentChunk' = Append(currentChunk, si)
    /\ currentSize' = currentSize + sentences[si + 1]
    /\ si' = si + 1
    /\ UNCHANGED <<sfn, sentences, pad, config, embeddings, embedCalls, semChunks,
                   semChunkIndex, semError, mpc>>

\* a return that leaves the current chunk out
GroupReturnWithoutFinalChunk ==
    /\ UNCHANGED <<chunkVars, pageVars, searchVars, rerankVars, callVars>>
    /\ mpc = "group"
    /\ si >= Len(sentences)
    /\ mpc' = "done"
    /\ UNCHANGED <<sfn, sentences, pad, config, embeddings, embedCalls, si, currentChunk,
                   currentSize, similarities, semChunks, semChunkIndex, semError>>

\* the loop's exit: the final chunk is pushed and the chunks are returned
GroupReturn ==
    /\ UNCHANGED <<chunkVars, pageVars, searchVars, rerankVars, callVars>>
    /\ mpc = "group"
    /\ si >= Len(sentences)
    /\ semChunks' = IF Len(currentChunk) > 0
                    THEN Append(semChunks,
                                SemanticChunkOf(currentChunk, semChunkIndex, similarities))
                    ELSE semChunks
    /\ mpc' = "done"
    /\ UNCHANGED <<sfn, sentences, pad, config, embeddings, embedCalls, si, currentChunk,
                   currentSize, similarities, semChunkIndex, semError>>

SemanticNext ==
    \/ HybridTry
    \/ HybridSkip
    \/ HybridFallback
    \/ SemanticBlank
    \/ SemanticShort
    \/ SemanticLong
    \/ EmbedBatch
    \/ EmbedBatchRejects
    \/ GroupStart
    \/ GroupThrows
    \/ GroupEmit
    \/ GroupAppend
    \/ GroupReturn


(***************************************************************************)
(* The embedding loop of semanticChunk call by call (SpecEmbed).           *)
(*                                                                         *)
(* EmbedBatch above takes a batch as one step.  Here Promise.all is taken  *)
(* apart: the calls of a batch are issued together, each resolves or       *)
(* rejects in a step of its own, in any order, and the batch is pushed     *)
(* when its last call has resolved.                                        *)
(***************************************************************************)
\* the indexes of the sentences of the batch that starts at sentence i
BatchAt(i) == i..(Min(i + batchSize, Len(sentences)) - 1)

\* a push of the vectors in the order in which the calls resolved
ResolvedInCompletionOrder(done, i) == [k \in 1..Len(done) |-> done[k].embedding]

\* what Promise.all resolves to: the vectors in the order of the batch,
\* whatever the order in which the calls resolved
Resolved(done, i) ==
    [k \in 1..Len(done) |->
        done[CHOOSE c \in 1..Len(done) : done[c].sentence = i + k - 1].embedding]

\* batch.map((sentence) => generateEmbedding(sentence)): every call of the
\* batch is issued
EmbedIssue ==
    /\ UNCHANGED <<chunkVars, pageVars, searchVars, rerankVars>>
    /\ mpc = "embed"
    /\ Len(embeddings) < Len(sentences)
    /\ inFlight' = inFlight \cup BatchAt(Len(embeddings))
    /\ embedCalls' = embedCalls + Cardinality(BatchAt(Len(embeddings)))
    /\ mpc' = "await"
    /\ UNCHANGED <<sfn, sentences, pad, config, embeddings, si, currentChunk, currentSize,
                   similarities, semChunks, semChunkIndex, semError, completed, answers>>

\* one pending call resolves
EmbedResolves ==
    /\ UNCHANGED <<chunkVars, pageVars, searchVars, rerankVars>>
    /\ mpc = "await"
    /\ \E j \in inFlight : \E v \in Vectors :
           /\ inFlight' = inFlight \ {j}
           /\ completed' = Append(completed, [sentence |-> j, embedding |-> v])
           /\ answers' = answers \cup {[sentence |-> j, embedding |-> v]}
    /\ UNCHANGED <<sfn, sentences, pad, config, embeddings, embedCalls, si, currentChunk,
                   currentSize, similarities, semChunks, semChunkIndex, semError, mpc>>

\* one pending call rejects: Promise.all rejects, and so does semanticChunk;
\* the other calls of the batch stay pending
EmbedRejects ==
    /\ UNCHANGED <<chunkVars, pageVars, searchVars, rerankVars>>
    /\ mpc = "await"
    /\ \E j \in inFlight : inFlight' = inFlight \ {j}
    /\ semError' = "embedding"
    /\ mpc' = Caught(sfn)
    /\ UNCHANGED <<sfn, sentences, pad, config, embeddings, embedCalls, si, currentChunk,
                   currentSize, similarities, semChunks, semChunkIndex, completed, answers>>

\* the last call of the batch has resolved: embeddings.push(...batchEmbeddings)
EmbedPush ==
    /\ UNCHANGED <<chunkVars, pageVars, searchVars, rerankVars>>
    /\ mpc = "await"
    /\ inFlight = {}
    /\ embeddings' = embeddings \o Resolved(completed, Len(embeddings))
    /\ completed' = <<>>
    /\ mpc' = "embed"
    /\ UNCHANGED <<sfn, sentences, pad, config, embedCalls, si, currentChunk, currentSize,
                   similarities, semChunks, semChunkIndex, semError, inFlight, answers>>

\* a direct call that keeps the default minChunkSize
EmbedInit ==
    /\ SemanticInit
    /\ sfn = "semanticChunk"
    /\ config.minChunkSize = DEFAULT_SEMANTIC_CONFIG.minChunkSize

EmbedNext ==
    \/ SemanticBlank
    \/ SemanticShort
    \/ SemanticLong
    \/ EmbedIssue
    \/ EmbedResolves
    \/ EmbedRejects
    \/ EmbedPush
    \/ GroupStart
    \/ GroupThrows
    \/ GroupEmit
    \/ GroupAppend
    \/ GroupReturn


InitRerank == RerankInit /\ ChunkIdle /\ PageIdle /\ SemanticIdle /\ SearchIdle

SpecRerank == InitRerank /\ [][RerankNext]_vars

InitSearch == SearchInit /\ ChunkIdle /\ PageIdle /\ SemanticIdle /\ RerankIdle

SpecSearch == InitSearch /\ [][SearchNext]_vars

InitUpload == UploadInit /\ ChunkIdle /\ PageIdle /\ SemanticIdle /\ RerankIdle

SpecUpload == InitUpload /\ [][UploadNext]_vars

InitChunk == ChunkInit /\ PageIdle /\ SemanticIdle /\ SearchIdle /\ RerankIdle

SpecChunk == InitChunk /\ [][ChunkNext]_vars

InitPages == PageInit /\ SemanticIdle /\ SearchIdle /\ RerankIdle

SpecPages == InitPages /\ [][PageNext]_vars

InitSemantic == SemanticInit /\ ChunkIdle /\ PageIdle /\ SearchIdle /\ RerankIdle

SpecSemantic == InitSemantic /\ [][SemanticNext]_vars

InitEmbed == EmbedInit /\ ChunkIdle /\ PageIdle /\ SearchIdle /\ RerankIdle

SpecEmbed == InitEmbed /\ [][EmbedNext]_vars

\* a call of chunkText, semanticChunk or hybridChunk
InitChunkers == InitChunk \/ InitSemantic

NextChunkers == ChunkNext \/ SemanticNext

SpecChunkers == InitChunkers /\ [][NextChunkers]_vars

\* any one call of any component
Init == InitChunk \/ InitPages \/ InitSemantic \/ InitEmbed \/ InitSearch \/ InitUpload \/ InitRerank
Next == ChunkNext \/ PageNext \/ SemanticNext \/ EmbedNext \/ SearchNext \/ JobNext \/ RerankNext
Spec == Init /\ [][Next]_vars

(***************************************************************************)
(* Claims about chunkText, checked under SpecChunk.                        *)
(***************************************************************************)
\* position p (0-based) of the text lies in the span of some chunk
Covered(p) ==
    \E i \in 1..Len(chunks) : chunks[i].startChar <= p /\ p < chunks[i].endChar

\* C1: a text that is not white space only and is shorter than chunkSize
\* gives, for every chunkOverlap >= 0, exactly one chunk, whose content is
\* the trimmed input.
C1_ShortTextOneChunk ==
    (cpc = "done" /\ Len(Trim(text)) > 0 /\ Len(text) < chunkSize)
        => (Len(chunks) = 1 /\ chunks[1].content = Trim(text))

\* C2: every iteration of chunkText's loop leaves startIndex strictly
\* greater than it found it.
C2_StartIndexAdvances == [][ChunkTextIter => startIndex' > startIndex]_vars

\* C3: the startChar values of the chunks are strictly increasing in output
\* order.
C3_StartCharsIncreasing ==
    \A i, j \in 1..Len(chunks) : i < j => chunks[i].startChar < chunks[j].startChar

\* C3's case: a returned list of three or more chunks, two of them
\* consecutive and overlapping
C3_Witness ==
    /\ cpc = "done"
    /\ Len(chunks) >= 3
    /\ \E i \in 1..(Len(chunks) - 1) : chunks[i + 1].startChar < chunks[i].endChar

\* C4 as claimed: the spans of the returned chunks cover every character
\* position of the text, and consecutive spans leave no gap.  (Stated for a
\* text that is not white space only: the empty result for a blank text is
\* not counted against the claim.)
C4_SpansCoverText ==
    (cpc = "done" /\ Len(Trim(text)) > 0)
        => /\ \A p \in 0..(Len(text) - 1) : Covered(p)
           /\ \A i \in 1..(Len(chunks) - 1) : chunks[i + 1].startChar <= chunks[i].endChar

\* C4 as amended: the spans of the returned chunks cover every character
\* position of the text that holds a character other than white space; a
\* position outside every span holds white space.
C4_SpansCoverContent ==
    (cpc = "done")
        => \A p \in 0..(Len(text) - 1) : ~IsSpace(text[p + 1]) => Covered(p)

\* C4's case: two or more chunks returned, with a position between them
\* that no span covers
C4_Witness ==
    /\ cpc = "done"
    /\ Len(chunks) >= 2
    /\ \E p \in 0..(Len(text) - 1) :
           /\ ~Covered(p)
           /\ chunks[1].endChar <= p
           /\ p < chunks[Len(chunks)].startChar

(***************************************************************************)
(* Claims about hybridSearch and hybridSearchInDocuments, checked under    *)
(* SpecSearch.                                                             *)
(***************************************************************************)
\* the 1-based rank of chunk id in a stage's list; 0 when it is absent
RankIn(rows, id) ==
    IF \E i \in 1..Len(rows) : rows[i].id = id
    THEN CHOOSE i \in 1..Len(rows) : rows[i].id = id
    ELSE 0

\* the fused score as the spec defines it: 1/(60 + rank) for each stage that
\* lists the chunk, 0 for a stage that does not
StageTerm(rank) == IF rank = 0 THEN [num |-> 0, den |-> 1] ELSE [num |-> 1, den |-> 60 + rank]
FusedScore(id) ==
    LET v == StageTerm(RankIn(semanticResults, id))
        l == StageTerm(RankIn(ftsResults, id))
    IN  [num |-> v.num * l.den + l.num * v.den, den |-> v.den * l.den]

StageIds(rows) == {rows[i].id : i \in 1..Len(rows)}

\* the call returned from the fused path
Fused == spc = "done" /\ fn = "hybridSearch" /\ lexicalQueries = 1

\* C5: on the fused path hybridSearch returns the chunks in non-increasing
\* order of fused score, the score the code sorts by is the sum over the
\* stages listing the chunk of 1/(60 + rank), and a chunk at rank 1 in both
\* lists scores 2/61.
C5_FusedOrder ==
    Fused =>
        /\ \A i, j \in 1..Len(searchResult) :
               i < j => ScoreGeq(FusedScore(searchResult[i].id), FusedScore(searchResult[j].id))
        /\ \A e \in 1..Len(rrfScores) : ScoreEq(rrfScores[e].score, FusedScore(rrfScores[e].id))
        /\ \A id \in StageIds(searchResult) :
               (RankIn(semanticResults, id) = 1 /\ RankIn(ftsResults, id) = 1)
                   => MapGet(rrfScores, id).num * 61 = 2 * MapGet(rrfScores, id).den

\* C5's case: two chunks returned, the first at rank 1 in both lists, the
\* second listed by one stage only
C5_Witness ==
    /\ Fused
    /\ Len(searchResult) = 2
    /\ RankIn(semanticResults, searchResult[1].id) = 1
    /\ RankIn(ftsResults, searchResult[1].id) = 1
    /\ RankIn(semanticResults, searchResult[2].id) = 0 \/ RankIn(ftsResults, searchResult[2].id) = 0

\* C6: the returned list holds no chunk id twice.
C6_NoDuplicateIds ==
    spc = "done" =>
        \A i, j \in 1..Len(searchResult) : i # j => searchResult[i].id # searchResult[j].id

\* C6's case: a chunk that both stages list is returned from the fused path
C6_Witness ==
    /\ Fused
    /\ \E i \in 1..Len(searchResult) :
           /\ searchResult[i].id \in StageIds(semanticResults)
           /\ searchResult[i].id \in StageIds(ftsResults)

\* C7: the returned list is no longer than limit and no longer than the
\* number of distinct chunk ids the two stages returned.
C7_LengthBounds ==
    spc = "done" =>
        /\ Len(searchResult) <= limit
        /\ Len(searchResult) <= Cardinality(StageIds(semanticResults) \cup StageIds(ftsResults))

\* C7's case: the fused list is cut to limit
C7_Witness ==
    /\ Fused
    /\ limit >= 1
    /\ Len(searchResult) = limit
    /\ Cardinality(StageIds(semanticResults) \cup StageIds(ftsResults)) > limit

\* the keywords as the spec defines them: split at white space, strip the
\* non-word characters, drop the tokens of 2 characters or fewer
SpecKeywords(q) == SelectSeq(MapStrip(Split(q)), LAMBDA w : Len(w) > 2)

\* C8: when tokenizing queryText yields no keyword, hybridSearch returns the
\* vector stage's rows cut to limit, in their order, and sends no keyword
\* query.
C8_NoKeywordsVectorOnly ==
    (spc = "done" /\ fn = "hybridSearch" /\ SpecKeywords(queryText) = <<>>)
        => /\ searchResult = Slice(semanticResults, limit)
           /\ lexicalQueries = 0

\* C8's case: a query of short tokens only, and more vector rows than limit
C8_Witness ==
    /\ spc = "done"
    /\ fn = "hybridSearch"
    /\ queryText # <<>>
    /\ SpecKeywords(queryText) = <<>>
    /\ limit >= 1
    /\ Len(semanticResults) > limit

\* C9: a call one of whose queries failed is rejected and has resolved to no
\* list; a rejected call is one whose vector or keyword query failed.
C9_FailurePropagates ==
    /\ searchError # "none" => (spc = "failed" /\ searchResult = <<>>)
    /\ spc = "failed" => searchError \in {"vector", "lexical"}

\* C9's case: the keyword query of hybridSearch fails after the vector query
\* returned rows
C9_Witness ==
    /\ spc = "failed"
    /\ fn = "hybridSearch"
    /\ searchError = "lexical"
    /\ semanticResults # <<>>

(***************************************************************************)
(* Claims about rerankChunks and rerankChunksCustom, checked under         *)
(* SpecRerank.                                                             *)
(***************************************************************************)
\* C10: a non-empty input of at most topN chunks comes back whole and in
\* its order, each chunk with rerankScore and originalSimilarity equal to
\* its own similarity and its other fields as they were, and the reranking
\* service is not called.
C10_ShortInputUnchanged ==
    (rpc = "done" /\ Len(rchunks) > 0 /\ Len(rchunks) <= topN) =>
        /\ Len(rerankResult) = Len(rchunks)
        /\ \A i \in 1..Len(rchunks) :
               /\ rerankResult[i].id = rchunks[i].id
               /\ rerankResult[i].content = rchunks[i].content
               /\ rerankResult[i].similarity = rchunks[i].similarity
               /\ rerankResult[i].rerankScore = rchunks[i].similarity
               /\ rerankResult[i].originalSimilarity = rchunks[i].similarity
        /\ rerankCalls = 0

\* C10's case: two chunks of different similarity with topN = 2, and an API
\* key at hand
C10_Witness ==
    /\ rpc = "done"
    /\ Len(rchunks) = 2
    /\ topN = 2
    /\ apiKey
    /\ rchunks[1].similarity # rchunks[2].similarity
    /\ Len(rerankResult) = 2

\* the steps in which the reranking fails: the client module does not load,
\* the API key is missing, the service call rejects, the response names an
\* index outside the input
RerankFails == RerankImportFails \/ RerankNoKey \/ RerankRejects \/ RerankBadIndex

\* C11: on an input of more than topN chunks, every way the reranking can
\* fail ends in a resolved call whose result is the first topN input chunks
\* in their order, each with rerankScore and originalSimilarity equal to
\* its own similarity.
C11_FailureFallsBack ==
    [][RerankFails =>
          /\ Len(rchunks) > topN
          /\ rpc' = "done"
          /\ Len(rerankResult') = topN
          /\ \A i \in 1..topN :
                 rerankResult'[i] =
                     [id |-> rchunks[i].id, content |-> rchunks[i].content,
                      similarity |-> rchunks[i].similarity,
                      rerankScore |-> rchunks[i].similarity,
                      originalSimilarity |-> rchunks[i].similarity]]_vars

\* C11's case: three chunks with topN = 2, the service was called and the
\* call failed, so the scores of the result are the chunks' similarities
C11_Witness ==
    /\ rpc = "done"
    /\ Len(rchunks) = 3
    /\ topN = 2
    /\ rerankCalls = 1
    /\ Len(rerankResult) = 2
    /\ rerankResult[1].rerankScore = rchunks[1].similarity
    /\ rerankResult[2].id = 2

\* C12: with topN >= 1, whatever the service does, the returned list has
\* exactly min(len(chunks), topN) entries.
C12_LengthIsMin ==
    (rpc = "done" /\ topN >= 1) => Len(rerankResult) = Min(Len(rchunks), topN)

(***************************************************************************)
(* Claims about semanticChunk and hybridChunk, checked under SpecSemantic. *)
(***************************************************************************)
\* the content of a chunk that is the whole trimmed text: every sentence
AllSentences == [k \in 1..Len(sentences) |-> k - 1]

\* C13: a direct semanticChunk call on a text that is not white space only
\* and is at most maxChunkSize long makes no embedding call and returns
\* exactly one chunk, whose content is the trimmed text and whose
\* avgSimilarity is 1.
C13_ShortTextSingleChunk ==
    (/\ sfn = "semanticChunk"
     /\ Len(sentences) > 0
     /\ TextLength(sentences, pad) <= config.maxChunkSize) =>
        /\ embedCalls = 0
        /\ mpc \in {"semantic", "done"}
        /\ mpc = "done" =>
               /\ Len(semChunks) = 1
               /\ semChunks[1].content = AllSentences
               /\ semChunks[1].avgSimilarity = Frac(1, 1)

\* C13's case: two sentences and white space around them, 202 characters
C13_Witness ==
    /\ sfn = "semanticChunk"
    /\ mpc = "done"
    /\ Len(sentences) = 2
    /\ pad = 1
    /\ TextLength(sentences, pad) <= config.maxChunkSize
    /\ Len(semChunks) = 1

\* the last min(sentenceWindow, size of the current chunk) sentences of the
\* current chunk
Trailing ==
    LET n == Min(config.sentenceWindow, Len(currentChunk))
    IN  SubSeq(currentChunk, Len(currentChunk) - n + 1, Len(currentChunk))

\* the rule of C14 for sentence si, on the chunk as it stands
SpecBoundary ==
    LET avg == Mean([k \in 1..Len(Trailing) |->
                        cosineSimilarity(embeddings[si + 1], embeddings[Trailing[k] + 1])])
    IN  \/ currentSize + sentences[si + 1] > config.maxChunkSize
        \/ /\ ~FracGeq(avg, config.similarityThreshold)
           /\ currentSize >= config.minChunkSize

C15_InvalidConfigRejected ==
    (/\ sfn = "semanticChunk"
     /\ config.minChunkSize > config.maxChunkSize
     /\ mpc # "semantic") =>
        /\ mpc = "failed"
        /\ embedCalls = 0
        /\ semChunks = <<>>

\* the contents of chunks c.., one after the other
RECURSIVE ContentsFrom(_, _)
ContentsFrom(cs, c) ==
    IF c > Len(cs) THEN <<>> ELSE cs[c].content \o ContentsFrom(cs, c + 1)

\* the sum of the lengths of the sentences of a chunk
SizeOf(chunk) == SumSeq([k \in 1..Len(chunk.content) |-> sentences[chunk.content[k] + 1]])

\* what the sentence accumulation gives: the sentences in their order, in
\* chunks that are closed only when the next sentence would take them
\* beyond maxSize, every chunk with avgSimilarity 0
IsAccumulation(cs) ==
    /\ ContentsFrom(cs, 1) = AllSentences
    /\ \A c \in 1..Len(cs) :
           /\ cs[c].avgSimilarity = Frac(0, 1)
           /\ cs[c].sentenceCount = Len(cs[c].content)
           /\ cs[c].chunkIndex = c - 1
           /\ Len(cs[c].content) > 0
           /\ Len(cs[c].content) > 1 => SizeOf(cs[c]) <= maxSize
           /\ c < Len(cs) => SizeOf(cs[c]) + sentences[cs[c + 1].content[1] + 1] > maxSize

\* C16: hybridChunk never rejects.  With more than the limit of sentences
\* it makes no embedding call; then, and when the semantic attempt throws,
\* it returns the sentence accumulation, every chunk with avgSimilarity 0.
\* When the semantic attempt returns, its chunks are the result: the single
\* chunk of a short text, or chunks of the grouping pass, none of which the
\* fallback has built.
C16_HybridFallsBack ==
    sfn = "hybridChunk" =>
        /\ mpc # "failed"
        /\ Len(sentences) > HybridSentenceLimit => embedCalls = 0
        /\ (mpc = "done" /\ (semError # "none" \/ Len(sentences) > HybridSentenceLimit)) =>
               IsAccumulation(semChunks)
        /\ (/\ mpc = "done"
            /\ semError = "none"
            /\ Len(sentences) > 0
            /\ Len(sentences) <= HybridSentenceLimit) =>
               /\ Len(semChunks) > 0
               /\ \A c \in 1..Len(semChunks) : semChunks[c].avgSimilarity # Frac(0, 1)
               /\ TextLength(sentences, pad) > DEFAULT_SEMANTIC_CONFIG.maxChunkSize =>
                      /\ embedCalls = Len(sentences)
                      /\ ContentsFrom(semChunks, 1) = AllSentences
               /\ TextLength(sentences, pad) <= DEFAULT_SEMANTIC_CONFIG.maxChunkSize =>
                      /\ embedCalls = 0
                      /\ Len(semChunks) = 1
                      /\ semChunks[1].avgSimilarity = Frac(1, 1)

\* C16's case: two long sentences whose embeddings differ in dimension, so
\* the semantic attempt throws and the fallback returns two chunks
C16_Witness ==
    /\ sfn = "hybridChunk"
    /\ mpc = "done"
    /\ semError = "dimension"
    /\ Len(sentences) = 2
    /\ embedCalls = 2
    /\ Len(semChunks) = 2
    /\ semChunks[2].avgSimilarity = Frac(0, 1)

\* the sentences that sentence i was compared with, read off the returned
\* chunks: the sentences before it in its chunk or, when it opens a chunk,
\* those of the chunk before, the last sentenceWindow of them at most
ComparedWith(i) ==
    LET c == CHOOSE c \in 1..Len(semChunks) :
                 \E j \in 1..Len(semChunks[c].content) : semChunks[c].content[j] = i
        first == semChunks[c].content[1]
        from == IF i > first THEN first
                ELSE IF c > 1 THEN semChunks[c - 1].content[1] ELSE i
    IN  {j \in from..(i - 1) : j >= i - config.sentenceWindow}

\* C17: a direct semanticChunk call on a text longer than maxChunkSize
\* rejects, with no chunk list, when an embedding call fails or when
\* cosineSimilarity meets two vectors of different lengths: if it returns,
\* every sentence has its embedding and every two embeddings that were
\* compared have the same length.
C17_FailuresReject ==
    (sfn = "semanticChunk" /\ TextLength(sentences, pad) > config.maxChunkSize) =>
        /\ semError # "none" => (mpc = "failed" /\ semChunks = <<>>)
        /\ mpc = "done" =>
               /\ Len(embeddings) = Len(sentences)
               /\ embedCalls = Len(sentences)
               /\ \A i \in 1..(Len(sentences) - 1) : \A j \in ComparedWith(i) :
                      Len(embeddings[i + 1]) = Len(embeddings[j + 1])

\* C17's case: both embedding calls resolve, with vectors of different
\* lengths, and the first comparison throws
C17_Witness ==
    /\ sfn = "semanticChunk"
    /\ mpc = "failed"
    /\ semError = "dimension"
    /\ Len(sentences) = 2
    /\ Len(embeddings) = 2
    /\ Len(embeddings[1]) # Len(embeddings[2])
    /\ semChunks = <<>>

\* the similarities of the comparisons made inside a chunk: one for each
\* sentence after its first, to the sentenceWindow sentences before it in
\* the chunk at most
InternalSimilarities(chunk) ==
    [j \in 1..(Len(chunk.content) - 1) |->
        LET from == Max(1, j + 1 - config.sentenceWindow)
        IN  Mean([k \in 1..(j + 1 - from) |->
                     cosineSimilarity(embeddings[chunk.content[j + 1] + 1],
                                      embeddings[chunk.content[from + k - 1] + 1])])]

\* C18: every chunk of the grouping pass records the number of its
\* sentences as sentenceCount and the mean of the similarities of the
\* comparisons made inside it as avgSimilarity, which is 1 for a chunk of
\* one sentence.
C18_AvgOfInternalComparisons ==
    (/\ sfn = "semanticChunk"
     /\ mpc = "done"
     /\ TextLength(sentences, pad) > config.maxChunkSize) =>
        \A c \in 1..Len(semChunks) :
            /\ semChunks[c].sentenceCount = Len(semChunks[c].content)
            /\ semChunks[c].avgSimilarity =
                   IF Len(semChunks[c].content) = 1
                   THEN Frac(1, 1)
                   ELSE Mean(InternalSimilarities(semChunks[c]))

(***************************************************************************)
(* A claim about the three chunkers, checked under SpecChunkers.           *)
(***************************************************************************)
\* C19: on a text that is empty or white space only, chunkText,
\* semanticChunk and hybridChunk return the empty sequence: none of them
\* rejects, none enters its loop, and no embedding call is made.
C19_BlankTextNoChunks ==
    /\ (cpc # "idle" /\ Len(Trim(text)) = 0) =>
           /\ cpc \in {"entry", "done"}
           /\ chunks = <<>>
    /\ (mpc # "idle" /\ Len(sentences) = 0) =>
           /\ mpc \in {"entry", "semantic", "fallback", "done"}
           /\ embedCalls = 0
           /\ semChunks = <<>>

\* C19's case: hybridChunk has returned on a text of one blank
C19_Witness ==
    /\ sfn = "hybridChunk"
    /\ mpc = "done"
    /\ Len(sentences) = 0
    /\ pad = 1
    /\ semChunks = <<>>

(***************************************************************************)
(* A claim about chunkTextWithPages, checked under SpecPages.              *)
(***************************************************************************)
\* C20: in the list chunkTextWithPages returns, the k-th chunk (0-based)
\* has chunkIndex k, so no chunkIndex occurs twice in a document.
C20_IndexIsOrdinal ==
    ppc = "done" => \A k \in 1..Len(allChunks) : allChunks[k].chunkIndex = k - 1

(***************************************************************************)
(* Further claims about hybridSearch and hybridSearchInDocuments, checked  *)
(* under SpecSearch.                                                       *)
(***************************************************************************)
\* C21: every returned chunk is the row a stage's query reported for it,
\* the vector stage's where that stage lists the chunk: its similarity is
\* the 1 - distance the index reported, and its content and documentId are
\* those of the row; on the fused path the chunks differ from the stages'
\* rows in nothing but their order.
C21_SimilarityIsVectorSimilarity ==
    spc = "done" =>
        \A i \in 1..Len(searchResult) :
            LET r == searchResult[i]
                v == RankIn(semanticResults, r.id)
                l == RankIn(ftsResults, r.id)
            IN  /\ v # 0 \/ l # 0
                /\ v # 0 => r = semanticResults[v]
                /\ v = 0 => r = ftsResults[l]
                /\ r.similarity \in Similarities
                /\ r.documentId = DocumentOf(r.id)

\* C21's case: fusion puts the vector stage's second row first, ahead of a
\* row of higher similarity
C21_Witness ==
    /\ Fused
    /\ Len(searchResult) = 2
    /\ Len(semanticResults) = 2
    /\ searchResult[1].id = semanticResults[2].id
    /\ searchResult[1].similarity < searchResult[2].similarity

(***************************************************************************)
(* A further claim about chunkText, checked under SpecChunk.               *)
(***************************************************************************)
\* the separators that C22 lets qualify in a window: those with an
\* occurrence whose last one lies at an offset of chunkSize * 0.5 or more
Qualifying(substring, size) ==
    {i \in 1..Len(separators) :
        /\ separators[i] # <<>>
        /\ LastIndexOf(substring, separators[i]) # -1
        /\ 2 * LastIndexOf(substring, separators[i]) >= size}

\* the window end of C22
SnappedEnd(t, start, size) ==
    LET endIndex == Min(start + size, Len(t))
        substring == Substring(t, start, endIndex)
        q == Qualifying(substring, size)
    IN  IF endIndex < Len(t) /\ q # {}
        THEN start + LastIndexOf(substring, separators[SetMin(q)])
                   + Len(separators[SetMin(q)])
        ELSE endIndex

\* C22: every chunk ends where the snapping rule puts the end of its
\* window: right after the last occurrence of the first separator, in
\* priority order, whose last occurrence lies at an offset of
\* chunkSize * 0.5 or more from the window start, and at start + chunkSize
\* (or the end of the text) when there is none.
C22_SnapAtOrAfterHalf ==
    \A i \in 1..Len(chunks) :
        chunks[i].startChar >= 0 =>
            chunks[i].endChar = SnappedEnd(text, chunks[i].startChar, chunkSize)

(***************************************************************************)
(* Claims about the lexical stage and the fused order, checked under       *)
(* SpecSearch.                                                             *)
(***************************************************************************)
\* C23: a scoped search (hybridSearchInDocuments with document ids) sends
\* a lexical query only for the keywords hybridSearch derives from the
\* query text and, when no keyword survives and the vector query has not
\* failed, returns the vector stage's rows cut to limit without a lexical
\* query.
C23_ScopedSameLexicalStage ==
    (fn = "hybridSearchInDocuments" /\ documentIds # {}) =>
        /\ lexicalQueries > 0 => TsQueryTerms(queryText) = Keywords(queryText)
        /\ (/\ SpecKeywords(queryText) = <<>>
            /\ spc \notin {"entry", "lexical"}
            /\ searchError # "vector") =>
               /\ spc = "done"
               /\ searchResult = Slice(semanticResults, limit)
               /\ lexicalQueries = 0

\* the keyword relevance of a chunk for the query: the number of the
\* query's keywords that its content holds
Relevance(id) ==
    Cardinality({k \in 1..Len(Keywords(queryText)) :
                    ILike(db[id].content, Keywords(queryText)[k])})

\* C24: in the list of the lexical stage of hybridSearch, a chunk of higher
\* keyword relevance stands before a chunk of lower keyword relevance,
\* whatever their vector similarities.
C24_LexicalRankByRelevance ==
    Fused =>
        \A a, b \in StageIds(ftsResults) :
            Relevance(a) > Relevance(b) => RankIn(ftsResults, a) < RankIn(ftsResults, b)

\* the place at which an id is first met: its rank in the vector stage's
\* list, or, for a chunk of the lexical stage only, its rank there counted
\* on from the end of the vector stage's list
FirstSeen(id) ==
    IF RankIn(semanticResults, id) # 0 THEN RankIn(semanticResults, id)
    ELSE Len(semanticResults) + RankIn(ftsResults, id)

\* a precedes b in the fused order: a higher fused score, or the same
\* score and met earlier
Precedes(a, b) ==
    \/ ~ScoreGeq(FusedScore(b), FusedScore(a))
    \/ ScoreEq(FusedScore(a), FusedScore(b)) /\ FirstSeen(a) < FirstSeen(b)

\* C25: on the fused path, chunks of equal fused score are returned in the
\* order in which their ids were first met; with the order by score and the
\* cut to limit this makes the returned list a function of the two stages'
\* lists: it is the first limit chunks of the one order Precedes gives.
C25_TiesByFirstSeen ==
    Fused =>
        /\ \A i, j \in 1..Len(searchResult) :
               (i < j /\ ScoreEq(FusedScore(searchResult[i].id), FusedScore(searchResult[j].id)))
                   => FirstSeen(searchResult[i].id) < FirstSeen(searchResult[j].id)
        /\ \A i, j \in 1..Len(searchResult) :
               i < j => Precedes(searchResult[i].id, searchResult[j].id)
        /\ \A id \in (StageIds(semanticResults) \cup StageIds(ftsResults))
                          \ StageIds(searchResult) :
               /\ Len(searchResult) = limit
               /\ \A i \in 1..Len(searchResult) : Precedes(searchResult[i].id, id)

\* C25's case: a chunk at rank 1 of the vector stage only and a chunk at
\* rank 1 of the lexical stage only, both with score 1/61
C25_Witness ==
    /\ Fused
    /\ Len(searchResult) = 2
    /\ ScoreEq(FusedScore(searchResult[1].id), FusedScore(searchResult[2].id))
    /\ RankIn(semanticResults, searchResult[1].id) = 1
    /\ RankIn(ftsResults, searchResult[1].id) = 0
    /\ RankIn(semanticResults, searchResult[2].id) = 0
    /\ RankIn(ftsResults, searchResult[2].id) = 1

\* C26: while semanticChunk embeds, in every order in which the calls
\* resolve: at most batchSize calls are pending; every call that is pending,
\* or has resolved and is not pushed yet, belongs to the batch that follows
\* the embeddings pushed so far, so no call of a later batch is issued
\* before the batch is complete; every sentence is answered at most once,
\* and the embedding stored at position j is the answer to sentence j
C26_BatchedEmbedding ==
    /\ Cardinality(inFlight) <= batchSize
    /\ \A j \in inFlight : j \in BatchAt(Len(embeddings))
    /\ \A c \in 1..Len(completed) :
           /\ completed[c].sentence \in BatchAt(Len(embeddings))
           /\ completed[c].sentence \notin inFlight
    /\ \A a, b \in answers : a.sentence = b.sentence => a = b
    /\ \A j \in 1..Len(embeddings) :
           [sentence |-> j - 1, embedding |-> embeddings[j]] \in answers

\* the second batch is pushed, and two of its calls resolved with
\* different vectors
C26_Witness ==
    /\ Len(embeddings) > batchSize + 1
    /\ embeddings[batchSize + 1] # embeddings[batchSize + 2]
    /\ mpc = "embed"
    /\ embedCalls = Len(embeddings)

\* C26 (the order of completion): a call of the second batch is pending
\* while a later call of that batch has resolved
C26_OutOfOrder ==
    /\ Len(embeddings) = batchSize
    /\ batchSize \in inFlight
    /\ Len(completed) = 1
    /\ completed[1].sentence = batchSize + 1

\* C27: in every interleaving of the embedding job of an upload with a
\* search call, every row the vector query or the keyword query returned,
\* and every chunk the call returns, has its embedding stored, and the
\* similarity returned is that of the stored embedding
C27_NoPendingChunkReturned ==
    /\ \A i \in 1..Len(semanticResults) : db[semanticResults[i].id].embedding
    /\ \A i \in 1..Len(ftsResults) : db[ftsResults[i].id].embedding
    /\ \A i \in 1..Len(searchResult) :
           /\ db[searchResult[i].id].embedding
           /\ searchResult[i].similarity = db[searchResult[i].id].similarity

\* a call returned a chunk of the uploaded document that the job stored
\* between the vector query and the keyword query, and left out a chunk
\* that matches a keyword and is still pending
C27_Witness ==
    /\ spc = "done"
    /\ fn = "hybridSearch"
    /\ jobpc \in {"store", "ready", "failed"}
    /\ Len(semanticResults) < 2 * limit
    /\ \E i \in 1..Len(searchResult) :
           /\ DocumentOf(searchResult[i].id) = jobDocument
           /\ searchResult[i].similarity >= minSimilarity
           /\ RankIn(semanticResults, searchResult[i].id) = 0
    /\ \E id \in ChunkIds :
           /\ ~db[id].embedding
           /\ Relevance(id) > 0
           /\ \A i \in 1..Len(searchResult) : searchResult[i].id # id

(***************************************************************************)
(* Further claims about semanticChunk and hybridChunk, checked under       *)
(* SpecSemantic.                                                           *)
(***************************************************************************)
\* the sentenceCount values of the chunks, in order
SentenceCounts(cs) == [c \in 1..Len(cs) |-> cs[c].sentenceCount]

\* C28: for a text longer than maxChunkSize the chunks returned, by the
\* grouping pass and by the fallback of hybridChunk alike, hold the
\* sentences in their order, each sentence in exactly one chunk and no
\* chunk empty; the sentenceCount of a chunk is the number of its
\* sentences, the counts add up to the number of sentences, and chunkIndex
\* runs 0, 1, 2, ...
C28_SentenceConservation ==
    (mpc = "done" /\ TextLength(sentences, pad) > config.maxChunkSize) =>
        /\ ContentsFrom(semChunks, 1) = AllSentences
        /\ SumSeq(SentenceCounts(semChunks)) = Len(sentences)
        /\ \A c \in 1..Len(semChunks) :
               /\ Len(semChunks[c].content) > 0
               /\ semChunks[c].sentenceCount = Len(semChunks[c].content)
               /\ semChunks[c].chunkIndex = c - 1

\* the grouping pass returned four sentences in three chunks
C28_Witness ==
    /\ mpc = "done"
    /\ semError = "none"
    /\ TextLength(sentences, pad) > config.maxChunkSize
    /\ Len(sentences) = 4
    /\ embedCalls = 4
    /\ Len(semChunks) = 3
    /\ \E c \in 1..3 : semChunks[c].sentenceCount = 2

\* the length of the content of a chunk: its sentences joined by " "
ContentLength(chunk) == SizeOf(chunk) + Len(chunk.content) - 1

\* C29: every chunk semanticChunk returns that holds two or more sentences
\* has a content of at most maxChunkSize characters.
C29_MaxChunkSizeBoundsContent ==
    (sfn = "semanticChunk" /\ mpc = "done") =>
        \A c \in 1..Len(semChunks) :
            Len(semChunks[c].content) >= 2 =>
                ContentLength(semChunks[c]) <= config.maxChunkSize

(***************************************************************************)
(* The similarity floor of a search, checked under SpecSearch.             *)
(***************************************************************************)
\* C30: every chunk a search returns has a similarity of at least
\* minSimilarity, the chunks the keyword query alone found included.
C30_MinSimilarityBoundsOutput ==
    spc = "done" =>
        \A i \in 1..Len(searchResult) : searchResult[i].similarity >= minSimilarity

====
